---- MODULE Spec2Model ----
(***************************************************************************)
(* Model of src/call.rs of twilio-rs: the Calls resource of the client.   *)
(*                                                                         *)
(*   - OutboundCall::new / new_with_twiml build the request value;         *)
(*   - Client::make_call and Client::retrieve_call build the parameters    *)
(*     of one transport request (send_request) and return its result;      *)
(*   - Call::from_map decodes a flat string mapping into a Call record.    *)
(*                                                                         *)
(* Strings are TLA+ strings.  An Option is a sequence of length 0 (None)   *)
(* or 1 (Some).  A BTreeMap<String, String> is a function whose domain is  *)
(* the set of keys present.  A Result is a record with a boolean field ok  *)
(* and either the field call (Ok) or the field err (Err).                  *)
(***************************************************************************)
EXTENDS Integers, Sequences, FiniteSets, TLC

VARIABLES
    pc,       \* pc[i]: position of invocation i in make_call / retrieve_call
    op,       \* op[i]: the operation and arguments invocation i was called with
    sent,     \* sent[i]: the request invocation i handed to send_request
    nreq,     \* nreq[i]: number of send_request calls invocation i has made
    wire,     \* requests handed to the transport and not yet answered
    result,   \* result[i]: what send_request returned to invocation i
    outcome,  \* outcome[i]: what invocation i returned to its caller
    dpc,      \* position of the decoding run: "input" or "decoded"
    m1, m2,   \* the two input mappings of the decoding run
    r1, r2    \* from_map(m1), from_map(m2) once decoded

vars == <<pc, op, sent, nreq, wire, result, outcome, dpc, m1, m2, r1, r2>>

clientVars == <<pc, op, sent, nreq, wire, result, outcome>>

decodeVars == <<dpc, m1, m2, r1, r2>>

(***************************************************************************)
(* Bounds and input sets                                                   *)
(***************************************************************************)
NumInv == 2

Inv == 1 .. NumInv

Phones == {"+15550001111", "+15550002222"}

Urls == {"https://example.com/twiml"}

Twimls == {"<Response><Hangup/></Response>"}

Sids == {"CA1", "CA2"}

None == <<>>

Some(v) == <<v>>

NoValue == [none |-> TRUE]

(***************************************************************************)
(* Types of call.rs                                                        *)
(***************************************************************************)
GET == "GET"

POST == "POST"

CallInstructionsUrl(url) == [tag |-> "Url", val |-> url]

CallInstructionsTwiml(twiml) == [tag |-> "Twiml", val |-> twiml]

OutboundCallNew(from, to, url) ==
    [from |-> from, to |-> to, instructions |-> CallInstructionsUrl(url)]

OutboundCallNewWithTwiml(from, to, twiml) ==
    [from |-> from, to |-> to, instructions |-> CallInstructionsTwiml(twiml)]

CallStatus ==
    {"Queued", "Ringing", "InProgress", "Canceled",
     "Completed", "Failed", "Busy", "NoAnswer"}

Call(from, to, sid, status) ==
    [from |-> from, to |-> to, sid |-> sid, status |-> status]

ParsingError == "ParsingError"

Ok(v) == [ok |-> TRUE, call |-> v]

Err(e) == [ok |-> FALSE, err |-> e]

(***************************************************************************)
(* Call::from_map                                                          *)
(***************************************************************************)
MapGet(m, k) == IF k \in DOMAIN m THEN Some(m[k]) ELSE None

MapRemove(m, k) == [x \in DOMAIN m \ {k} |-> m[x]]

\* Variant of StatusOf: the last arm repeats the variant of the arm before it.
StatusOfRepeatedArm(s) ==
    CASE s = Some("queued")      -> Some("Queued")
      [] s = Some("ringing")     -> Some("Ringing")
      [] s = Some("in-progress") -> Some("InProgress")
      [] s = Some("canceled")    -> Some("Canceled")
      [] s = Some("completed")   -> Some("Completed")
      [] s = Some("failed")      -> Some("Failed")
      [] s = Some("busy")        -> Some("Busy")
      [] s = Some("no-answer")   -> Some("Busy")
      [] OTHER                   -> None

\* Variant of StatusOf: the token is matched without regard to case.
StatusOfAnyCase(s) ==
    CASE s \in {Some("queued"), Some("Queued")}           -> Some("Queued")
      [] s \in {Some("ringing"), Some("Ringing")}         -> Some("Ringing")
      [] s \in {Some("in-progress"), Some("In-Progress")} -> Some("InProgress")
      [] s \in {Some("canceled"), Some("Canceled")}       -> Some("Canceled")
      [] s \in {Some("completed"), Some("Completed")}     -> Some("Completed")
      [] s \in {Some("failed"), Some("Failed")}           -> Some("Failed")
      [] s \in {Some("busy"), Some("Busy")}               -> Some("Busy")
      [] s \in {Some("no-answer"), Some("No-Answer")}     -> Some("NoAnswer")
      [] OTHER                                            -> None

StatusOf(s) ==
    CASE s = Some("queued")      -> Some("Queued")
      [] s = Some("ringing")     -> Some("Ringing")
      [] s = Some("in-progress") -> Some("InProgress")
      [] s = Some("canceled")    -> Some("Canceled")
      [] s = Some("completed")   -> Some("Completed")
      [] s = Some("failed")      -> Some("Failed")
      [] s = Some("busy")        -> Some("Busy")
      [] s = Some("no-answer")   -> Some("NoAnswer")
      [] OTHER                   -> None

\* Variant of FromMap: the From and To values end up in each other's field.
FromMapSwapped(m) ==
    LET from == MapGet(m, "From")
        to   == MapGet(m, "To")
        sid  == MapGet(m, "CallSid")
        stat == StatusOf(MapGet(m, "CallStatus"))
    IN  IF from = None \/ to = None \/ sid = None \/ stat = None
        THEN Err(ParsingError)
        ELSE Ok(Call(to[1], from[1], sid[1], stat[1]))

\* Variant of FromMap: a missing CallSid is replaced by the empty string.
FromMapDefaultSid(m) ==
    LET from == MapGet(m, "From")
        to   == MapGet(m, "To")
        sid  == IF MapGet(m, "CallSid") = None THEN Some("")
                ELSE MapGet(m, "CallSid")
        stat == StatusOf(MapGet(m, "CallStatus"))
    IN  IF from = None \/ to = None \/ stat = None
        THEN Err(ParsingError)
        ELSE Ok(Call(from[1], to[1], sid[1], stat[1]))

\* Variant of FromMap: a mapping with a key that is not read is rejected.
FromMapStrict(m) ==
    LET from == MapGet(m, "From")
        to   == MapGet(m, "To")
        sid  == MapGet(m, "CallSid")
        stat == StatusOf(MapGet(m, "CallStatus"))
        rest == DOMAIN m \ {"From", "To", "CallSid", "CallStatus"}
    IN  IF from = None \/ to = None \/ sid = None \/ stat = None \/ rest # {}
        THEN Err(ParsingError)
        ELSE Ok(Call(from[1], to[1], sid[1], stat[1]))

\* Variant of FromMap: the sid is taken from the key removed just before it.
FromMapSidFromTo(m) ==
    LET from == MapGet(m, "From")
        to   == MapGet(m, "To")
        sid  == MapGet(m, "CallSid")
        stat == StatusOf(MapGet(m, "CallStatus"))
    IN  IF from = None \/ to = None \/ sid = None \/ stat = None
        THEN Err(ParsingError)
        ELSE Ok(Call(from[1], to[1], to[1], stat[1]))

FromMap(m) ==
    LET from == MapGet(m, "From")
        ma   == MapRemove(m, "From")
        to   == MapGet(ma, "To")
        mb   == MapRemove(ma, "To")
        sid  == MapGet(mb, "CallSid")
        mc   == MapRemove(mb, "CallSid")
        stat == StatusOf(MapGet(mc, "CallStatus"))
    IN  IF from = None THEN Err(ParsingError)
        ELSE IF to = None THEN Err(ParsingError)
        ELSE IF sid = None THEN Err(ParsingError)
        ELSE IF stat = None THEN Err(ParsingError)
        ELSE Ok(Call(from[1], to[1], sid[1], stat[1]))

(***************************************************************************)
(* Inputs of the decoding run: every mapping over the four keys from_map   *)
(* reads and two keys it does not read, each absent or bound to one of a   *)
(* few values.                                                             *)
(***************************************************************************)
Tokens ==
    {"queued", "ringing", "in-progress", "canceled",
     "completed", "failed", "busy", "no-answer"}

ReadKeys == {"From", "To", "CallSid", "CallStatus"}

FromVals == {"+15550001111"}

ToVals == {"+15550002222"}

SidVals == {"", "CA1"}

StatusVals == Tokens \cup {"unknown", "In-Progress"}

AccountVals == {"AC1"}

LowerStatusVals == {"queued"}

Opt(S) == {None} \cup {Some(v) : v \in S}

MapOf(o) == [k \in {x \in DOMAIN o : o[x] # None} |-> o[k][1]]

Maps ==
    { MapOf([From |-> f, To |-> t, CallSid |-> s, CallStatus |-> c,
             AccountSid |-> a, callstatus |-> l]) :
        f \in Opt(FromVals), t \in Opt(ToVals), s \in Opt(SidVals),
        c \in Opt(StatusVals), a \in Opt(AccountVals),
        l \in Opt(LowerStatusVals) }

DecodeInputs ==
    /\ dpc = "input"
    /\ m1 \in Maps
    /\ m2 \in Maps
    /\ r1 = NoValue
    /\ r2 = NoValue

Decode ==
    /\ dpc = "input"
    /\ dpc' = "decoded"
    /\ r1' = FromMap(m1)
    /\ r2' = FromMap(m2)
    /\ UNCHANGED <<m1, m2>>
    /\ UNCHANGED clientVars

DecodeNext == Decode

ClientIdle ==
    /\ pc = [i \in Inv |-> "idle"]
    /\ op = [i \in Inv |-> NoValue]
    /\ sent = [i \in Inv |-> NoValue]
    /\ nreq = [i \in Inv |-> 0]
    /\ wire = {}
    /\ result = [i \in Inv |-> NoValue]
    /\ outcome = [i \in Inv |-> NoValue]

InitDecode == DecodeInputs /\ ClientIdle

SpecDecode == InitDecode /\ [][DecodeNext]_vars

(***************************************************************************)
(* Client::make_call and Client::retrieve_call                             *)
(***************************************************************************)
OutboundCalls ==
    {OutboundCallNew(f, t, u) : f \in Phones, t \in Phones, u \in Urls}
    \cup
    {OutboundCallNewWithTwiml(f, t, x) : f \in Phones, t \in Phones, x \in Twimls}

Request(method, path, params) ==
    [method |-> method, path |-> path, params |-> params]

\* Variant of MakeCallOpts: From is pushed before To.
MakeCallOptsFromFirst(call) ==
    LET opts == << <<"From", call.from>>, <<"To", call.to>> >>
    IN  CASE call.instructions.tag = "Url" ->
               Append(opts, <<"Url", call.instructions.val>>)
          [] call.instructions.tag = "Twiml" ->
               Append(opts, <<"Twiml", call.instructions.val>>)

MakeCallOpts(call) ==
    LET opts == << <<"To", call.to>>, <<"From", call.from>> >>
    IN  CASE call.instructions.tag = "Url" ->
               Append(opts, <<"Url", call.instructions.val>>)
          [] call.instructions.tag = "Twiml" ->
               Append(opts, <<"Twiml", call.instructions.val>>)

MakeCallRequest(call) == Request(POST, "Calls", MakeCallOpts(call))

\* Variant of RetrieveCallRequest: the sid is passed as a parameter, not in the path.
RetrieveCallRequestSidParam(sid) == Request(GET, "Calls", << <<"Sid", sid>> >>)

RetrieveCallRequest(sid) == Request(GET, "Calls/" \o sid, <<>>)

\* Variant of MakeCall: opts is a buffer shared by the invocations of the
\* client, so a request in flight lends its parameters to the next one.
MakeCallSharedOpts(i) ==
    /\ pc[i] = "idle"
    /\ \E call \in OutboundCalls :
         \E req \in IF wire = {} THEN {MakeCallRequest(call)}
                    ELSE {Request(POST, "Calls", w.req.params) : w \in wire} :
            /\ op' = [op EXCEPT ![i] = [kind |-> "make_call", call |-> call]]
            /\ sent' = [sent EXCEPT ![i] = req]
            /\ wire' = wire \cup {[inv |-> i, req |-> req]}
    /\ nreq' = [nreq EXCEPT ![i] = @ + 1]
    /\ pc' = [pc EXCEPT ![i] = "awaiting"]
    /\ UNCHANGED <<result, outcome>>
    /\ UNCHANGED decodeVars

\* make_call up to the await: builds opts and calls send_request once.
MakeCall(i) ==
    /\ pc[i] = "idle"
    /\ \E call \in OutboundCalls :
         /\ op' = [op EXCEPT ![i] = [kind |-> "make_call", call |-> call]]
         /\ sent' = [sent EXCEPT ![i] = MakeCallRequest(call)]
         /\ wire' = wire \cup {[inv |-> i, req |-> MakeCallRequest(call)]}
    /\ nreq' = [nreq EXCEPT ![i] = @ + 1]
    /\ pc' = [pc EXCEPT ![i] = "awaiting"]
    /\ UNCHANGED <<result, outcome>>
    /\ UNCHANGED decodeVars

\* retrieve_call up to the await: formats the path and calls send_request once.
RetrieveCall(i) ==
    /\ pc[i] = "idle"
    /\ \E sid \in Sids :
         /\ op' = [op EXCEPT ![i] = [kind |-> "retrieve_call", sid |-> sid]]
         /\ sent' = [sent EXCEPT ![i] = RetrieveCallRequest(sid)]
         /\ wire' = wire \cup {[inv |-> i, req |-> RetrieveCallRequest(sid)]}
    /\ nreq' = [nreq EXCEPT ![i] = @ + 1]
    /\ pc' = [pc EXCEPT ![i] = "awaiting"]
    /\ UNCHANGED <<result, outcome>>
    /\ UNCHANGED decodeVars

\* The transport's answers: a failure of its own, or the flat mapping of the
\* provider's response decoded into a Call.
NetworkError == "NetworkError"

ReplyMaps ==
    { MapOf([From |-> Some("+15550001111"), To |-> Some("+15550002222"),
             CallSid |-> s, CallStatus |-> Some(c)]) :
        s \in Opt({"CA1"}), c \in {"queued", "in-progress", "unknown"} }

Replies == {Err(NetworkError)} \cup {FromMap(m) : m \in ReplyMaps}

\* send_request completes for invocation i.
SendRequestReply(i) ==
    /\ pc[i] = "awaiting"
    /\ \E w \in wire :
         /\ w.inv = i
         /\ wire' = wire \ {w}
    /\ \E r \in Replies : result' = [result EXCEPT ![i] = r]
    /\ pc' = [pc EXCEPT ![i] = "replied"]
    /\ UNCHANGED <<op, sent, nreq, outcome>>
    /\ UNCHANGED decodeVars

\* Variant of MakeCallReturn: a failed request is sent again.
MakeCallReturnRetry(i) ==
    /\ pc[i] = "replied"
    /\ op[i].kind = "make_call"
    /\ IF result[i].ok
       THEN /\ outcome' = [outcome EXCEPT ![i] = result[i]]
            /\ pc' = [pc EXCEPT ![i] = "done"]
            /\ UNCHANGED <<nreq, wire>>
       ELSE /\ nreq' = [nreq EXCEPT ![i] = @ + 1]
            /\ wire' = wire \cup {[inv |-> i, req |-> sent[i]]}
            /\ pc' = [pc EXCEPT ![i] = "awaiting"]
            /\ UNCHANGED outcome
    /\ UNCHANGED <<op, sent, result>>
    /\ UNCHANGED decodeVars

\* make_call after the await: the value of send_request is the value returned.
MakeCallReturn(i) ==
    /\ pc[i] = "replied"
    /\ op[i].kind = "make_call"
    /\ outcome' = [outcome EXCEPT ![i] = result[i]]
    /\ pc' = [pc EXCEPT ![i] = "done"]
    /\ UNCHANGED <<op, sent, nreq, wire, result>>
    /\ UNCHANGED decodeVars

\* retrieve_call after the await: the value of send_request is the value returned.
RetrieveCallReturn(i) ==
    /\ pc[i] = "replied"
    /\ op[i].kind = "retrieve_call"
    /\ outcome' = [outcome EXCEPT ![i] = result[i]]
    /\ pc' = [pc EXCEPT ![i] = "done"]
    /\ UNCHANGED <<op, sent, nreq, wire, result>>
    /\ UNCHANGED decodeVars

DecodeIdle ==
    /\ dpc = "input"
    /\ m1 = <<>>
    /\ m2 = <<>>
    /\ r1 = NoValue
    /\ r2 = NoValue

Init == ClientIdle /\ DecodeIdle

Next ==
    \E i \in Inv :
        \/ MakeCall(i)
        \/ RetrieveCall(i)
        \/ SendRequestReply(i)
        \/ MakeCallReturn(i)
        \/ RetrieveCallReturn(i)

Spec == Init /\ [][Next]_vars

(***************************************************************************)
(* Properties of Call::from_map, checked under SpecDecode                  *)
(***************************************************************************)
\* The two decoding runs of a state: input mapping and result.
Runs == {<<m1, r1>>, <<m2, r2>>}

RequiredKeys == {"From", "To", "CallSid"}

\* The variant the specification names for each status token.
VariantOf ==
    [t \in Tokens |->
        CASE t = "queued"      -> "Queued"
          [] t = "ringing"     -> "Ringing"
          [] t = "in-progress" -> "InProgress"
          [] t = "canceled"    -> "Canceled"
          [] t = "completed"   -> "Completed"
          [] t = "failed"      -> "Failed"
          [] t = "busy"        -> "Busy"
          [] t = "no-answer"   -> "NoAnswer"]

Valid(m) == ReadKeys \subseteq DOMAIN m /\ m["CallStatus"] \in Tokens

\* C1: a mapping with From, To, CallSid and a CallStatus that is one of the
\* eight tokens decodes successfully into a record whose from, to and sid are
\* the input values verbatim and whose status is the variant of the token.
C1_ValidDecodes ==
    dpc = "decoded" =>
        \A run \in Runs :
            Valid(run[1]) =>
                /\ run[2].ok
                /\ run[2].call.from = run[1]["From"]
                /\ run[2].call.to = run[1]["To"]
                /\ run[2].call.sid = run[1]["CallSid"]
                /\ run[2].call.status = VariantOf[run[1]["CallStatus"]]

C1_Witness ==
    /\ dpc = "decoded"
    /\ Valid(m1)
    /\ m1["CallStatus"] = "in-progress"
    /\ m1["CallSid"] = "CA1"
    /\ r1 = Ok(Call("+15550001111", "+15550002222", "CA1", "InProgress"))

\* C2: a mapping whose CallStatus is absent, or is not exactly one of the
\* eight tokens, fails to decode with the parsing error, also when From, To
\* and CallSid are present.
C2_BadStatusFails ==
    dpc = "decoded" =>
        \A run \in Runs :
            ("CallStatus" \notin DOMAIN run[1] \/ run[1]["CallStatus"] \notin Tokens)
                => run[2] = Err(ParsingError)

C2_Witness ==
    /\ dpc = "decoded"
    /\ RequiredKeys \subseteq DOMAIN m1
    /\ "CallStatus" \in DOMAIN m1
    /\ m1["CallStatus"] = "In-Progress"
    /\ r1 = Err(ParsingError)
    /\ RequiredKeys \subseteq DOMAIN m2
    /\ "CallStatus" \notin DOMAIN m2
    /\ r2 = Err(ParsingError)

\* C3: a mapping that lacks From, To or CallSid fails to decode with the
\* parsing error, whatever its other keys and its CallStatus are.
C3_MissingKeyFails ==
    dpc = "decoded" =>
        \A run \in Runs :
            ~(RequiredKeys \subseteq DOMAIN run[1]) => run[2] = Err(ParsingError)

C3_Witness ==
    /\ dpc = "decoded"
    /\ DOMAIN m1 = {"From", "To", "CallStatus"}
    /\ m1["CallStatus"] = "completed"
    /\ r1 = Err(ParsingError)

\* C4: the status mapping is total and injective on the eight tokens: every
\* token decodes to a variant, two decoded records have the same status
\* exactly when their tokens are the same, and the eight tokens together
\* give all eight variants of CallStatus.
C4_StatusInjective ==
    /\ \A t \in Tokens : StatusOf(Some(t)) # None /\ StatusOf(Some(t))[1] \in CallStatus
    /\ {StatusOf(Some(t))[1] : t \in Tokens} = CallStatus
    /\ dpc = "decoded" /\ Valid(m1) /\ Valid(m2) =>
          /\ r1.ok /\ r2.ok
          /\ r1.call.status \in CallStatus
          /\ (r1.call.status = r2.call.status) <=> (m1["CallStatus"] = m2["CallStatus"])

C4_Witness ==
    /\ dpc = "decoded"
    /\ Valid(m1) /\ Valid(m2)
    /\ m1["CallStatus"] = "busy"
    /\ m2["CallStatus"] = "no-answer"
    /\ r1.ok /\ r2.ok
    /\ r1.call.status = "Busy"
    /\ r2.call.status = "NoAnswer"

SameReadKeys(a, b) == \A k \in ReadKeys : MapGet(a, k) = MapGet(b, k)

\* C7: keys other than From, To, CallSid and CallStatus are ignored: two
\* mappings that agree on those four keys (same presence, same values)
\* decode to the same outcome, the same record or the same error.
C7_ExtraKeysIgnored ==
    dpc = "decoded" /\ SameReadKeys(m1, m2) => r1 = r2

C7_Witness ==
    /\ dpc = "decoded"
    /\ SameReadKeys(m1, m2)
    /\ DOMAIN m1 = ReadKeys
    /\ DOMAIN m2 = ReadKeys \cup {"AccountSid", "callstatus"}
    /\ r1.ok
    /\ r1 = r2

\* C8 as stated: every record of a successful decoding has a non-empty sid.
C8_SidNonEmpty ==
    dpc = "decoded" => \A run \in Runs : run[2].ok => run[2].call.sid # ""

\* C8 as amended: the sid of a decoded record is the CallSid value of the
\* input verbatim, so it is empty exactly when that value is empty: a valid
\* mapping whose CallSid is the empty string decodes to a record with an
\* empty sid.
C8_SidVerbatim ==
    dpc = "decoded" =>
        \A run \in Runs :
            /\ run[2].ok =>
                 /\ "CallSid" \in DOMAIN run[1]
                 /\ run[2].call.sid = run[1]["CallSid"]
            /\ (Valid(run[1]) /\ run[1]["CallSid"] = "") =>
                 (run[2].ok /\ run[2].call.sid = "")

C8_Witness ==
    /\ dpc = "decoded"
    /\ Valid(m1)
    /\ m1["CallSid"] = ""
    /\ r1.ok
    /\ r1.call.sid = ""

(***************************************************************************)
(* Properties of make_call and retrieve_call, checked under Spec           *)
(***************************************************************************)
Started(i) == pc[i] # "idle"

IsMakeCall(i) == Started(i) /\ op[i].kind = "make_call"

IsRetrieveCall(i) == Started(i) /\ op[i].kind = "retrieve_call"

ParamKeys(params) == {params[n][1] : n \in DOMAIN params}

\* C5: make_call hands the transport a POST on path "Calls" with exactly
\* three parameters in the order To, From and then Url (instructions Url) or
\* Twiml (instructions Twiml): never both of Url and Twiml, never neither.
C5_MakeCallRequest ==
    \A i \in Inv :
        IsMakeCall(i) =>
            LET call == op[i].call
                req  == sent[i]
            IN  /\ req.method = "POST"
                /\ req.path = "Calls"
                /\ Len(req.params) = 3
                /\ req.params[1] = <<"To", call.to>>
                /\ req.params[2] = <<"From", call.from>>
                /\ call.instructions.tag \in {"Url", "Twiml"}
                /\ req.params[3] = <<call.instructions.tag, call.instructions.val>>
                /\ Cardinality(ParamKeys(req.params) \cap {"Url", "Twiml"}) = 1
                /\ pc[i] = "awaiting" => [inv |-> i, req |-> req] \in wire

C5_Witness ==
    \E i \in Inv :
        /\ pc[i] = "awaiting"
        /\ op[i] = [kind |-> "make_call",
                    call |-> OutboundCallNew("+15550001111", "+15550002222",
                                             "https://example.com/twiml")]
        /\ sent[i].params = << <<"To", "+15550002222">>,
                               <<"From", "+15550001111">>,
                               <<"Url", "https://example.com/twiml">> >>
        /\ [inv |-> i, req |-> sent[i]] \in wire

\* C6: retrieve_call hands the transport a GET whose path is "Calls/"
\* followed by the sid and whose parameter list is empty.
C6_RetrieveCallRequest ==
    \A i \in Inv :
        IsRetrieveCall(i) =>
            /\ sent[i].method = "GET"
            /\ sent[i].path = "Calls/" \o op[i].sid
            /\ Len(sent[i].path) = 6 + Len(op[i].sid)
            /\ sent[i].params = <<>>
            /\ pc[i] = "awaiting" => [inv |-> i, req |-> sent[i]] \in wire

C6_Witness ==
    \E i \in Inv :
        /\ pc[i] = "awaiting"
        /\ op[i] = [kind |-> "retrieve_call", sid |-> "CA2"]
        /\ sent[i] = [method |-> "GET", path |-> "Calls/CA2", params |-> <<>>]
        /\ [inv |-> i, req |-> sent[i]] \in wire

\* What an invocation hands to the transport when it runs alone.
SoloRequest(o) ==
    IF o.kind = "make_call" THEN MakeCallRequest(o.call)
    ELSE RetrieveCallRequest(o.sid)

OfInvocation(i) == <<pc[i], op[i], sent[i], nreq[i], result[i], outcome[i]>>

\* C9: in every interleaving, a step of one invocation leaves every other
\* invocation (and its request in flight) untouched; the request it hands
\* to the transport is the one the same invocation produces alone, a
\* function of its own arguments; and the outcome it returns is its own
\* transport reply.
C9_Independent ==
    [][\A i \in Inv :
          pc'[i] # pc[i] =>
              /\ \A j \in Inv \ {i} :
                    /\ OfInvocation(j)' = OfInvocation(j)
                    /\ \A w \in wire : w.inv = j => w \in wire'
                    /\ \A w \in wire' : w.inv = j => w \in wire
              /\ pc'[i] = "awaiting" =>
                    /\ sent'[i] = SoloRequest(op'[i])
                    /\ {w \in wire' : w.inv = i} = {[inv |-> i, req |-> SoloRequest(op'[i])]}
              /\ pc'[i] = "replied" => op'[i] = op[i] /\ sent'[i] = sent[i]
              /\ pc'[i] = "done" =>
                    /\ outcome'[i] = result[i]
                    /\ op'[i] = op[i] /\ sent'[i] = sent[i] /\ result'[i] = result[i]
      ]_vars

C9_Witness ==
    \E i, j \in Inv :
        /\ i # j
        /\ pc[i] = "awaiting" /\ pc[j] = "replied"
        /\ op[i].kind = "make_call" /\ op[j].kind = "retrieve_call"
        /\ sent[i] = SoloRequest(op[i])
        /\ wire = {[inv |-> i, req |-> sent[i]]}
        /\ result[j].ok

\* C10: an invocation makes exactly one transport request and returns that
\* request's result unchanged (the decoded record, or the transport's or the
\* decoder's error): there is no second request, whatever the result.
C10_OneRequest ==
    \A i \in Inv :
        /\ nreq[i] = (IF Started(i) THEN 1 ELSE 0)
        /\ Cardinality({w \in wire : w.inv = i}) = (IF pc[i] = "awaiting" THEN 1 ELSE 0)
        /\ pc[i] = "done" =>
              /\ outcome[i] = result[i]
              /\ outcome[i] \in Replies

C10_Witness ==
    \E i, j \in Inv :
        /\ pc[i] = "done" /\ pc[j] = "done"
        /\ outcome[i] = Err(NetworkError)
        /\ outcome[j] = Err(ParsingError)
        /\ nreq[i] = 1 /\ nreq[j] = 1
        /\ wire = {}

====
